---- MODULE Spec2Model ----
(***************************************************************************)
(* A model of gold_bull.icli_vnext: the interactive console's read-eval    *)
(* loop (InteractiveConsole), its continuation buffer, the forward-replay  *)
(* recursion of __run_executor and the first-match dispatch of             *)
(* ChainCommandExecutor over the built-in, Python, shell and user-supplied *)
(* executors; and, as a specification of its own (ShellSpec), the run of   *)
(* ShellCommandExecutor with its child process, the two pipes and the two  *)
(* drain tasks.                                                            *)
(*                                                                         *)
(* Command lines are sequences of one-character strings, so that           *)
(* str.endswith, str.startswith, slicing and str.join are computed on      *)
(* characters.                                                             *)
(***************************************************************************)
EXTENDS Naturals, Sequences, FiniteSets

VARIABLES
    executor,        \* InteractiveConsole.__executor (fixed at construction)
    exitmsg,         \* the exitmsg argument of the running interact() call
    pc,              \* where the console is: "new", "read", "run", "history",
                     \* "echo", "returned" (interact returned), "crashed"
    buffer,          \* InteractiveConsole.__buffer
    continue_input,  \* InteractiveConsole.__continue_input
    line,            \* the line argument of the innermost __run_executor call
    stack,           \* the active "for command in ex.commands" loops, innermost first
    log,             \* observable events of the logical command in progress
    asked,           \* members whose can_run_cmd the last top-level chain run called
    ran,             \* members whose run the last top-level chain run called
    idleStart,       \* was the console Idle when the command in progress began
    how,             \* how the last interact() call that ended did so
    shell_pc,        \* where a call of ShellCommandExecutor.run is: "none",
                     \* "popen", "submit_stdout", "submit_stderr", "shutdown",
                     \* "close", "wait", "finished"
    script,          \* the writes the child process has still to make
    child,           \* the child process: "none", "running", "exited"
    pipe,            \* the lines held by the stdout and the stderr pipe
    task,            \* the two drain tasks: "none", "running", "done", "raised"
    written,         \* the lines the child has written to each stream
    relayed          \* the text printed to sys.stdout and to sys.stderr

consoleVars == <<executor, exitmsg, pc, buffer, continue_input, line, stack, log,
                 asked, ran, idleStart, how>>
shellVars == <<shell_pc, script, child, pipe, task, written, relayed>>
vars == <<consoleVars, shellVars>>

----------------------------------------------------------------------------
(* Bounds of the model *)

\* most fragments the continuation buffer is let to hold
MaxBuffer == 3
\* most forward requests replayed within one logical command
MaxForwards == 2
\* most writes a child process makes
MaxWrites == 3
\* the lines an operating-system pipe holds before a write to it blocks
PipeCapacity == 1

----------------------------------------------------------------------------
(* Strings *)

PromptNew == <<">", ">", " ">>
PromptContinue == <<".", ".", " ">>
Marker == <<" ", "\\">>
NL == <<"\n">>
PyPrefix == <<"#", "#", "p", "y", "t", "h", "o", "n", "\n">>
ClearCmd == <<"c", "l", "e", "a", "r", "(", ")">>
ExitCmd == <<"e", "x", "i", "t", "(", ")">>

EndsWith(s, suffix) ==
    /\ Len(s) >= Len(suffix)
    /\ SubSeq(s, Len(s) - Len(suffix) + 1, Len(s)) = suffix

StartsWith(s, prefix) ==
    /\ Len(s) >= Len(prefix)
    /\ SubSeq(s, 1, Len(prefix)) = prefix

\* s[:-n]
DropLast(s, n) == IF Len(s) >= n THEN SubSeq(s, 1, Len(s) - n) ELSE <<>>

RECURSIVE Join(_, _)
\* sep.join(parts)
Join(sep, parts) ==
    IF parts = <<>> THEN <<>>
    ELSE IF Len(parts) = 1 THEN parts[1]
    ELSE parts[1] \o sep \o Join(sep, Tail(parts))

----------------------------------------------------------------------------
(* Inputs *)

LineA == <<"a">>
LineAMore == <<"a", " ", "\\">>
LineBackslash == <<"a", "\\">>
LinePyMore == <<"#", "#", "p", "y", "t", "h", "o", "n", " ", "\\">>

\* what input() can return
Lines == {LineA, LineBackslash, LinePyMore, ExitCmd, ClearCmd}

\* the commands lists a ForwardToExecutorException can carry
ForwardLists == {<<>>, <<LineAMore, LineBackslash>>, <<ExitCmd, LineA>>}

None == [isNone |-> TRUE, text |-> <<>>]
Some(s) == [isNone |-> FALSE, text |-> s]
ExitMsgs == {None, Some(<<>>), Some(<<"b", "y", "e">>)}

----------------------------------------------------------------------------
(* Executors *)

Exec(kind, id, members) == [kind |-> kind, id |-> id, members |-> members]
BuiltInCommandExecutor == Exec("builtin", 0, <<>>)
PythonCommandExecutor == Exec("python", 0, <<>>)
ShellCommandExecutor == Exec("shell", 0, <<>>)
\* an implementation of AbstractCommandExecutor supplied by the caller
UserExecutor(id) == Exec("user", id, <<>>)

\* a constructor that appends all three default executors after the
\* caller's
ChainDefaultsLast(include_default_executors, executors) ==
    Exec("chain", 0,
         executors
         \o (IF include_default_executors
             THEN <<BuiltInCommandExecutor, PythonCommandExecutor, ShellCommandExecutor>>
             ELSE <<>>))

ChainCommandExecutor(include_default_executors, executors) ==
    Exec("chain", 0,
         (IF include_default_executors THEN <<BuiltInCommandExecutor>> ELSE <<>>)
         \o executors
         \o (IF include_default_executors
             THEN <<PythonCommandExecutor, ShellCommandExecutor>> ELSE <<>>))

BuiltInCmd == {ClearCmd, ExitCmd}

\* can_run_cmd of the user-supplied executors of the model: executor 1
\* claims the commands of its own table (as BuiltInCommandExecutor does),
\* executor 2 those that start with "c", executor 3 claims every command,
\* executor 4 those that start with "e"
UserCanRunCmd(id, source) ==
    CASE id = 1 -> source \in {LineA, LineAMore, LineBackslash}
      [] id = 2 -> StartsWith(source, <<"c">>)
      [] id = 3 -> TRUE
      [] OTHER -> StartsWith(source, <<"e">>)

RECURSIVE CanRunCmdChainAlways(_, _)
\* a chain that claims every command
CanRunCmdChainAlways(e, source) ==
    CASE e.kind = "builtin" -> source \in BuiltInCmd
      [] e.kind = "shell" -> TRUE
      [] e.kind = "python" -> StartsWith(source, PyPrefix)
      [] e.kind = "user" -> UserCanRunCmd(e.id, source)
      [] OTHER -> TRUE

RECURSIVE CanRunCmd(_, _)
\* e.can_run_cmd(source)
CanRunCmd(e, source) ==
    CASE e.kind = "builtin" -> source \in BuiltInCmd
      [] e.kind = "shell" -> TRUE
      [] e.kind = "python" -> StartsWith(source, PyPrefix)
      [] e.kind = "user" -> UserCanRunCmd(e.id, source)
      [] OTHER -> \E i \in 1..Len(e.members) : CanRunCmd(e.members[i], source)

RECURSIVE ChainLoopNoReturn(_, _, _, _)
\* the loop without its return: every member is asked and every claimant run
ChainLoopNoReturn(members, command_line, i, askedSoFar) ==
    IF i > Len(members) THEN [asked |-> askedSoFar, ran |-> <<>>]
    ELSE LET rest == ChainLoopNoReturn(members, command_line, i + 1,
                                       Append(askedSoFar, i))
         IN  IF CanRunCmd(members[i], command_line)
             THEN [asked |-> rest.asked, ran |-> <<i>> \o rest.ran]
             ELSE rest

RECURSIVE ChainLoop(_, _, _, _)
\* the loop of ChainCommandExecutor.run from member i on: the members it
\* asks and the members it runs (none: CommandNotFoundException)
ChainLoop(members, command_line, i, askedSoFar) ==
    IF i > Len(members) THEN [asked |-> askedSoFar, ran |-> <<>>]
    ELSE IF CanRunCmd(members[i], command_line)
         THEN [asked |-> Append(askedSoFar, i), ran |-> <<i>>]
         ELSE ChainLoop(members, command_line, i + 1, Append(askedSoFar, i))

ChainRun(e, command_line) == ChainLoop(e.members, command_line, 1, <<>>)

\* How a call of run can end.  type: "return", "forward" (raises
\* ForwardToExecutorException(commands)), "interrupt" (KeyboardInterrupt
\* leaves run), "notfound" (CommandNotFoundException), "error" (any other
\* exception leaves run).  signal: an interrupt signal arrived during the
\* call.  report: the call wrote an error report to sys.stderr.
Outcome(type, commands, signal, report) ==
    [type |-> type, commands |-> commands, signal |-> signal, report |-> report]

\* an exit built-in that returns instead of raising KeyboardInterrupt
BuiltInRunExitReturns(source) ==
    IF source \in {ExitCmd, ClearCmd} THEN {Outcome("return", <<>>, FALSE, FALSE)}
    ELSE {Outcome("error", <<>>, FALSE, FALSE)}

BuiltInRun(source) ==
    IF source = ExitCmd THEN {Outcome("interrupt", <<>>, FALSE, FALSE)}
    ELSE IF source = ClearCmd THEN {Outcome("return", <<>>, FALSE, FALSE)}
    ELSE {Outcome("error", <<>>, FALSE, FALSE)}

PythonRun(command_line) ==
    { Outcome("return", <<>>, FALSE, FALSE),   \* compiled and executed, or incomplete
      Outcome("return", <<>>, FALSE, TRUE),    \* compile error or exception in exec
      Outcome("return", <<>>, TRUE, TRUE),     \* KeyboardInterrupt in exec: bare except
      Outcome("interrupt", <<>>, TRUE, FALSE)  \* KeyboardInterrupt outside exec
    }

ShellRun(command_line) ==
    { Outcome("return", <<>>, FALSE, FALSE),     \* the child ran, both streams drained
      Outcome("interrupt", <<>>, TRUE, FALSE),   \* KeyboardInterrupt while waiting
      Outcome("error", <<>>, FALSE, FALSE) }     \* subprocess.Popen raised (OSError, ValueError)

\* run of the user-supplied executors of the model: each can return, be
\* interrupted or fail, and executor 1 can raise ForwardToExecutorException
UserRun(id, command_line) ==
    { Outcome("return", <<>>, FALSE, FALSE),
      Outcome("interrupt", <<>>, TRUE, FALSE),
      Outcome("error", <<>>, FALSE, FALSE) }
    \cup (IF id = 1
          THEN { Outcome("forward", cs, FALSE, FALSE) : cs \in ForwardLists }
          ELSE {})

RECURSIVE Run(_, _)
\* the ways e.run(command_line) can end
Run(e, command_line) ==
    CASE e.kind = "builtin" -> BuiltInRun(command_line)
      [] e.kind = "python" -> PythonRun(command_line)
      [] e.kind = "shell" -> ShellRun(command_line)
      [] e.kind = "user" -> UserRun(e.id, command_line)
      [] OTHER ->
           LET r == ChainRun(e, command_line)
           IN  IF r.ran = <<>> THEN {Outcome("notfound", <<>>, FALSE, FALSE)}
               ELSE Run(e.members[r.ran[1]], command_line)

\* the executors a console is constructed with
Executors ==
    { ChainCommandExecutor(TRUE, <<>>),
      ChainCommandExecutor(TRUE, <<UserExecutor(1)>>),
      ChainCommandExecutor(TRUE, <<UserExecutor(3)>>),
      ChainCommandExecutor(FALSE, <<UserExecutor(1)>>),
      ChainCommandExecutor(FALSE,
          <<ChainCommandExecutor(FALSE, <<UserExecutor(2)>>), UserExecutor(4)>>),
      BuiltInCommandExecutor }

----------------------------------------------------------------------------
(* The passthrough executor: ShellCommandExecutor.run, its child process    *)
(* and its two drain tasks                                                  *)

\* the streams of the child
Streams == {"stdout", "stderr"}

\* Lines of output are sequences of bytes.  The child of the model writes
\* the lines "x\n" and "y\n" and a line that holds the byte 0xFF.
ByteLineX == <<120, 10>>
ByteLineY == <<121, 10>>
ByteLineBad == <<255, 10>>
ByteLines == {ByteLineX, ByteLineY, ByteLineBad}

\* line.decode('utf8') succeeds: the bytes of the model are single-byte
\* code points (below 0x80) or 0xFF, which no UTF-8 sequence holds
Decodable(bytes) == \A i \in 1..Len(bytes) : bytes[i] < 128

\* the character of a byte below 0x80
Chr(b) == CASE b = 10 -> "\n" [] b = 120 -> "x" [] b = 121 -> "y" [] OTHER -> "?"

\* line.decode('utf8') of a line that can be decoded
Decode(bytes) == [i \in 1..Len(bytes) |-> Chr(bytes[i])]

\* a write of the child: a line to one of its streams
Write(fd, data) == [fd |-> fd, data |-> data]
Writes == {Write(fd, data) : fd \in Streams, data \in ByteLines}

RECURSIVE SeqsUpTo(_, _)
\* the sequences of at most n elements of S
SeqsUpTo(S, n) ==
    IF n = 0 THEN {<<>>}
    ELSE LET shorter == SeqsUpTo(S, n - 1)
         IN  shorter \cup {Append(q, x) : q \in {t \in shorter : Len(t) = n - 1}, x \in S}

\* what the child processes of the model do: any interleaving of at most
\* MaxWrites lines to stdout and stderr, then exit
Scripts == SeqsUpTo(Writes, MaxWrites)

Both(v) == [fd \in Streams |-> v]

\* no call of ShellCommandExecutor.run has been made
ShellIdle ==
    /\ shell_pc = "none"
    /\ script = <<>>
    /\ child = "none"
    /\ pipe = Both(<<>>)
    /\ task = Both("none")
    /\ written = Both(<<>>)
    /\ relayed = Both(<<>>)

\* the console of a state in which only ShellCommandExecutor.run is followed
ConsoleAside ==
    /\ executor = ShellCommandExecutor
    /\ exitmsg = [isNone |-> TRUE, text |-> <<>>]
    /\ pc = "run"
    /\ buffer = <<>>
    /\ continue_input = FALSE
    /\ line = <<>>
    /\ stack = <<>>
    /\ log = <<>>
    /\ asked = <<>>
    /\ ran = <<>>
    /\ idleStart = TRUE
    /\ how = [by |-> "none", cont |-> FALSE]

ShellInit ==
    /\ ConsoleAside
    /\ ShellIdle

\* subprocess.Popen(command_line, shell=True, stdout=PIPE, stderr=PIPE):
\* the child starts; s is what command_line makes it write
Popen(s) ==
    /\ shell_pc = "none"
    /\ shell_pc' = "submit_stdout"
    /\ script' = s
    /\ child' = "running"
    /\ UNCHANGED <<pipe, task, written, relayed, consoleVars>>

\* executor.submit(task) on a ThreadPoolExecutor(max_workers=2) that runs
\* fewer than two tasks: a worker thread starts the task at once
Submit(fd, next) ==
    /\ task' = [task EXCEPT ![fd] = "running"]
    /\ shell_pc' = next

\* executor.submit(ShellCommandExecutor.__process_stdout, process)
SubmitStdout ==
    /\ shell_pc = "submit_stdout"
    /\ Submit("stdout", "submit_stderr")
    /\ UNCHANGED <<script, child, pipe, written, relayed, consoleVars>>

\* executor.submit(ShellCommandExecutor.__process_stderr, process)
SubmitStderr ==
    /\ shell_pc = "submit_stderr"
    /\ Submit("stderr", "shutdown")
    /\ UNCHANGED <<script, child, pipe, written, relayed, consoleVars>>

\* the parent holds the read ends of the pipes open until Popen.__exit__
ReadEndsOpen == shell_pc \notin {"wait", "finished"}

\* the child's next write is to fd and the pipe of fd is full
BlockedOn(fd) ==
    /\ child = "running"
    /\ script # <<>>
    /\ Head(script).fd = fd
    /\ ReadEndsOpen
    /\ Len(pipe[fd]) >= PipeCapacity

\* the child writes its next line: into the pipe when the pipe has room
\* (the write blocks while it is full); once the parent has closed the
\* read end the write fails, and the child is killed by SIGPIPE or goes on
ChildWrite ==
    /\ child = "running"
    /\ script # <<>>
    /\ LET w == Head(script)
       IN  IF ReadEndsOpen
           THEN /\ Len(pipe[w.fd]) < PipeCapacity
                /\ pipe' = [pipe EXCEPT ![w.fd] = Append(@, w.data)]
                /\ written' = [written EXCEPT ![w.fd] = Append(@, w.data)]
                /\ script' = Tail(script)
                /\ child' = child
           ELSE /\ UNCHANGED <<pipe, written>>
                /\ \/ script' = Tail(script) /\ child' = child
                   \/ script' = <<>> /\ child' = "exited"
    /\ UNCHANGED <<shell_pc, task, relayed, consoleVars>>

\* the child has written everything: it exits, which closes both streams
ChildExit ==
    /\ child = "running"
    /\ script = <<>>
    /\ child' = "exited"
    /\ UNCHANGED <<shell_pc, script, pipe, task, written, relayed, consoleVars>>

\* one turn of "for line in process.<fd>: print(line.decode('utf8'), ...)":
\* the next line of the pipe is decoded and printed, and a line that
\* cannot be decoded raises UnicodeDecodeError, which ends the task (the
\* future keeps the exception); at end-of-stream the task is done; the
\* read blocks while the pipe is empty and the child has it open
Process(fd) ==
    /\ task[fd] = "running"
    /\ IF pipe[fd] # <<>>
       THEN /\ pipe' = [pipe EXCEPT ![fd] = Tail(@)]
            /\ IF Decodable(Head(pipe[fd]))
               THEN /\ relayed' = [relayed EXCEPT ![fd] = @ \o Decode(Head(pipe[fd]))]
                    /\ task' = task
               ELSE /\ task' = [task EXCEPT ![fd] = "raised"]
                    /\ relayed' = relayed
       ELSE /\ child = "exited"
            /\ task' = [task EXCEPT ![fd] = "done"]
            /\ UNCHANGED <<pipe, relayed>>

\* ShellCommandExecutor.__process_stdout
ProcessStdout ==
    /\ Process("stdout")
    /\ UNCHANGED <<shell_pc, script, child, written, consoleVars>>

\* ShellCommandExecutor.__process_stderr
ProcessStderr ==
    /\ Process("stderr")
    /\ UNCHANGED <<shell_pc, script, child, written, consoleVars>>

\* a task has ended: it returned or it raised
Ended(fd) == task[fd] \in {"done", "raised"}

\* the end of "with ThreadPoolExecutor(...)": shutdown(wait=True) returns
\* when both tasks have ended
Shutdown ==
    /\ shell_pc = "shutdown"
    /\ \A fd \in Streams : Ended(fd)
    /\ shell_pc' = "close"
    /\ UNCHANGED <<script, child, pipe, task, written, relayed, consoleVars>>

\* the end of "with subprocess.Popen(...)": Popen.__exit__ closes
\* process.stdout and process.stderr, and what the pipes hold is lost
CloseStreams ==
    /\ shell_pc = "close"
    /\ shell_pc' = "wait"
    /\ pipe' = Both(<<>>)
    /\ UNCHANGED <<script, child, task, written, relayed, consoleVars>>

\* Popen.__exit__ then waits for the child, and run returns
Wait ==
    /\ shell_pc = "wait"
    /\ child = "exited"
    /\ shell_pc' = "finished"
    /\ UNCHANGED <<script, child, pipe, task, written, relayed, consoleVars>>

ShellNext ==
    \/ \E s \in Scripts : Popen(s)
    \/ SubmitStdout
    \/ SubmitStderr
    \/ ChildWrite
    \/ ChildExit
    \/ ProcessStdout
    \/ ProcessStderr
    \/ Shutdown
    \/ CloseStreams
    \/ Wait

ShellSpec == ShellInit /\ [][ShellNext]_vars

----------------------------------------------------------------------------
(* The console *)

\* An observable event.  op: "prompt" and "read" (input), "run" (a call of
\* self.__executor.run), "forward" (ForwardToExecutorException caught),
\* "history" (readline.add_history), "stdout", "stderr" (print), "signal"
\* (an interrupt signal).  at: the source line of the statement.  req, pos:
\* for a forwarded command, the position in the log of the forward request
\* that carries it and its position in that request (0, 0: a typed command).
Ev(op, arg, cmds, at, req, pos) ==
    [op |-> op, arg |-> arg, cmds |-> cmds, at |-> at, req |-> req, pos |-> pos]

\* the prompt interact passes to input()
Prompt == IF continue_input THEN PromptContinue ELSE PromptNew

\* a test that leaves out exitmsg != ''
FarewellUnlessNone(msg) ==
    IF ~msg.isNone
    THEN <<Ev("stderr", msg.text \o NL, <<>>, 233, 0, 0)>>
    ELSE <<>>

\* what the last two lines of interact write
Farewell(msg) ==
    IF ~msg.isNone /\ msg.text # <<>>
    THEN <<Ev("stderr", msg.text \o NL, <<>>, 233, 0, 0)>>
    ELSE <<>>

\* the logical command of the log has been dispatched: the next read starts
\* a new one
CycleOver == \E k \in 1..Len(log) : log[k].op = "run"
LogBase == IF CycleOver THEN <<>> ELSE log
IdleNow == buffer = <<>> /\ ~continue_input
IdleStartNext == IF LogBase = <<>> THEN IdleNow ELSE idleStart

NumForwards(lg) == Cardinality({k \in 1..Len(lg) : lg[k].op = "forward"})

\* a loop that walks ex.commands from its end
CommandReversed ==
    stack[1].commands[Len(stack[1].commands) - stack[1].idx + 1]
\* the command variable of the innermost for loop of __run_executor
Command == stack[1].commands[stack[1].idx]
CurReq == IF stack = <<>> THEN 0 ELSE stack[1].req
CurPos == IF stack = <<>> THEN 0 ELSE stack[1].idx

\* a replay that puts the commands of a new request behind the ones that
\* are waiting
EnterLast(frame, stk) == stk \o <<frame>>
\* the for loop over ex.commands starts inside the call of __run_executor
\* that caught the exception: it is the innermost one
Enter(frame, stk) == <<frame>> \o stk

RECURSIVE Unwind(_)
\* leave the for loops that have no command left
Unwind(stk) ==
    IF stk = <<>> THEN <<>>
    ELSE IF stk[1].idx >= Len(stk[1].commands) THEN Unwind(Tail(stk))
    ELSE stk

\* by: how the last interact() call that ended did so: "eof", "sigint" (an
\* interrupt signal), "exit" (the exit() built-in), "crash" (an exception
\* left interact), "none" (none has ended yet).  cont: __continue_input at
\* that moment.
How(by, cont) == [by |-> by, cont |-> cont]

Init ==
    /\ executor \in Executors
    /\ exitmsg = None
    /\ pc = "new"
    /\ buffer = <<>>
    /\ continue_input = FALSE
    /\ line = <<>>
    /\ stack = <<>>
    /\ log = <<>>
    /\ asked = <<>>
    /\ ran = <<>>
    /\ idleStart = TRUE
    /\ how = How("none", FALSE)
    /\ ShellIdle

\* a call of interact(msg), the first one or one after interact has ended
Interact(msg) ==
    /\ UNCHANGED shellVars
    /\ pc \in {"new", "returned", "crashed"}
    /\ pc' = "read"
    /\ exitmsg' = msg
    /\ log' = <<>>
    /\ stack' = <<>>
    /\ line' = <<>>
    /\ asked' = <<>>
    /\ ran' = <<>>
    /\ idleStart' = IdleNow
    /\ UNCHANGED <<executor, buffer, continue_input, how>>

\* a marker test that forgets the space: any line that ends in a backslash
MoreAnyBackslash(l) == EndsWith(l, <<"\\">>)
\* line.endswith(' \\')
More(l) == EndsWith(l, Marker)
\* a strip that removes the backslash and leaves the space
FragmentDropOne(l) == IF More(l) THEN DropLast(l, 1) ELSE l
\* what __run_command appends to the buffer
Fragment(l) == IF More(l) THEN DropLast(l, 2) ELSE l
\* "\n".join(self.__buffer)
Source(buf) == Join(NL, buf)

\* input() returns l, and __run_command(l) runs up to the call of
\* self.__executor.run (or to its end when l asks for more)
InputLine(l) ==
    /\ UNCHANGED shellVars
    /\ pc = "read"
    /\ Len(buffer) < MaxBuffer
    /\ LET more == More(l)
       IN  /\ buffer' = Append(buffer, Fragment(l))
           /\ log' = LogBase \o <<Ev("prompt", Prompt, <<>>, 221, 0, 0),
                                  Ev("read", l, <<>>, 221, 0, 0)>>
           /\ idleStart' = IdleStartNext
           /\ IF more
              THEN /\ continue_input' = TRUE
                   /\ pc' = "read"
                   /\ UNCHANGED line
              ELSE /\ line' = Source(buffer')
                   /\ pc' = "run"
                   /\ UNCHANGED continue_input
    /\ stack' = <<>>
    /\ asked' = <<>>
    /\ ran' = <<>>
    /\ UNCHANGED <<executor, exitmsg, how>>

\* an EOFError handler that writes the newline and stays in the loop
InputEOFNoBreak ==
    /\ UNCHANGED shellVars
    /\ pc = "read"
    /\ log' = LogBase \o <<Ev("prompt", Prompt, <<>>, 221, 0, 0),
                           Ev("stderr", NL, <<>>, 223, 0, 0)>>
    /\ idleStart' = IdleStartNext
    /\ asked' = <<>>
    /\ ran' = <<>>
    /\ UNCHANGED <<executor, exitmsg, pc, buffer, continue_input, line, stack, how>>

\* input() raises EOFError
InputEOF ==
    /\ UNCHANGED shellVars
    /\ pc = "read"
    /\ log' = LogBase \o <<Ev("prompt", Prompt, <<>>, 221, 0, 0),
                           Ev("stderr", NL, <<>>, 223, 0, 0)>>
                      \o Farewell(exitmsg)
    /\ idleStart' = IdleStartNext
    /\ pc' = "returned"
    /\ how' = How("eof", continue_input)
    /\ asked' = <<>>
    /\ ran' = <<>>
    /\ UNCHANGED <<executor, exitmsg, buffer, continue_input, line, stack>>

\* a KeyboardInterrupt handler that breaks without __resetbuffer()
InterruptedKeepsBuffer(lg, signal) ==
    /\ log' = lg \o Farewell(exitmsg)
    /\ pc' = "returned"
    /\ how' = How(IF signal THEN "sigint" ELSE "exit", continue_input)
    /\ stack' = <<>>
    /\ line' = <<>>
    /\ UNCHANGED <<buffer, continue_input>>

\* what "except KeyboardInterrupt" and the end of interact do
Interrupted(lg, signal) ==
    /\ buffer' = <<>>
    /\ continue_input' = FALSE
    /\ log' = lg \o Farewell(exitmsg)
    /\ pc' = "returned"
    /\ how' = How(IF signal THEN "sigint" ELSE "exit", continue_input)
    /\ stack' = <<>>
    /\ line' = <<>>

\* a handler that reports the command and keeps the buffer
NotFoundKeepsBuffer(lg, command_line) ==
    /\ log' = Append(lg, Ev("stderr", command_line, <<>>, 231, 0, 0))
    /\ pc' = "read"
    /\ stack' = <<>>
    /\ line' = <<>>
    /\ UNCHANGED <<buffer, continue_input, how>>

\* what "except CommandNotFoundException as ex" does; str(ex) is the
\* command line the chain raised the exception with
NotFound(lg, command_line) ==
    /\ buffer' = <<>>
    /\ continue_input' = FALSE
    /\ log' = Append(lg, Ev("stderr", command_line, <<>>, 231, 0, 0))
    /\ pc' = "read"
    /\ stack' = <<>>
    /\ line' = <<>>
    /\ UNCHANGED how

\* an interrupt signal while input() waits
InputInterrupt ==
    /\ UNCHANGED shellVars
    /\ pc = "read"
    /\ Interrupted(LogBase \o <<Ev("prompt", Prompt, <<>>, 221, 0, 0),
                                Ev("signal", <<>>, <<>>, 221, 0, 0)>>, TRUE)
    /\ idleStart' = IdleStartNext
    /\ asked' = <<>>
    /\ ran' = <<>>
    /\ UNCHANGED <<executor, exitmsg>>

\* a loop that goes back to input() after every call, its for loops
\* still open
ContinueSuspends(stk, lg) ==
    LET s == Unwind(stk)
    IN  /\ log' = lg
        /\ stack' = s
        /\ pc' = "read"
        /\ IF s = <<>>
           THEN buffer' = <<>> /\ continue_input' = FALSE /\ line' = <<>>
           ELSE UNCHANGED <<buffer, continue_input, line>>
        /\ UNCHANGED how

\* after a call of __run_executor has returned: the next command of the
\* innermost unfinished for loop, or the end of __run_command
Continue(stk, lg) ==
    LET s == Unwind(stk)
    IN  /\ log' = lg
        /\ IF s = <<>>
           THEN /\ buffer' = <<>>
                /\ continue_input' = FALSE
                /\ stack' = <<>>
                /\ line' = <<>>
                /\ pc' = "read"
           ELSE /\ stack' = <<[s[1] EXCEPT !.idx = @ + 1]>> \o Tail(s)
                /\ pc' = "history"
                /\ UNCHANGED <<buffer, continue_input, line>>
        /\ UNCHANGED how

\* await self.__executor.run(line), and what its outcome leads to
RunExecutor ==
    /\ UNCHANGED shellVars
    /\ pc = "run"
    /\ LET r == IF executor.kind = "chain" THEN ChainRun(executor, line)
                ELSE [asked |-> <<>>, ran |-> <<>>]
       IN  /\ asked' = r.asked
           /\ ran' = r.ran
    /\ \E o \in Run(executor, line) :
         LET lg == log \o <<Ev("run", line, <<>>, 193, CurReq, CurPos)>>
                       \o (IF o.signal
                           THEN <<Ev("signal", <<>>, <<>>, 193, CurReq, CurPos)>> ELSE <<>>)
                       \o (IF o.report
                           THEN <<Ev("stderr", <<>>, <<>>, 102, CurReq, CurPos)>> ELSE <<>>)
         IN  CASE o.type = "return" -> Continue(stack, lg)
               [] o.type = "forward" ->
                    /\ NumForwards(log) < MaxForwards
                    /\ LET lf == lg \o <<Ev("forward", <<>>, o.commands, 194, CurReq, CurPos)>>
                       IN  Continue(Enter([commands |-> o.commands, idx |-> 0,
                                           req |-> Len(lf)], stack), lf)
               [] o.type = "interrupt" -> Interrupted(lg, o.signal)
               [] o.type = "notfound" -> NotFound(lg, line)
               [] OTHER ->
                    /\ log' = lg
                    /\ pc' = "crashed"
                    /\ how' = How("crash", continue_input)
                    /\ stack' = <<>>
                    /\ line' = <<>>
                    /\ UNCHANGED <<buffer, continue_input>>
    /\ UNCHANGED <<executor, exitmsg, idleStart>>

\* readline.add_history(command)
AddHistory ==
    /\ UNCHANGED shellVars
    /\ pc = "history"
    /\ log' = Append(log, Ev("history", Command, <<>>, 196, CurReq, CurPos))
    /\ pc' = "echo"
    /\ UNCHANGED <<executor, exitmsg, buffer, continue_input, line, stack,
                   asked, ran, idleStart, how>>

\* a replay that passes the command through the marker test of
\* __run_command
EchoStrips ==
    /\ UNCHANGED shellVars
    /\ pc = "echo"
    /\ log' = Append(log, Ev("stdout", PromptNew \o Command, <<>>, 197, CurReq, CurPos))
    /\ line' = Fragment(Command)
    /\ pc' = "run"
    /\ UNCHANGED <<executor, exitmsg, buffer, continue_input, stack,
                   asked, ran, idleStart, how>>

\* print(self.__prompt_new + command), then the call __run_executor(command)
Echo ==
    /\ UNCHANGED shellVars
    /\ pc = "echo"
    /\ log' = Append(log, Ev("stdout", PromptNew \o Command, <<>>, 197, CurReq, CurPos))
    /\ line' = Command
    /\ pc' = "run"
    /\ UNCHANGED <<executor, exitmsg, buffer, continue_input, stack,
                   asked, ran, idleStart, how>>

\* an interrupt signal between the statements of the replay loop
ReplayInterrupt ==
    /\ UNCHANGED shellVars
    /\ pc \in {"history", "echo"}
    /\ Interrupted(Append(log, Ev("signal", <<>>, <<>>, 195, CurReq, CurPos)), TRUE)
    /\ UNCHANGED <<executor, exitmsg, asked, ran, idleStart>>

Next ==
    \/ \E msg \in ExitMsgs : Interact(msg)
    \/ \E l \in Lines : InputLine(l)
    \/ InputEOF
    \/ InputInterrupt
    \/ RunExecutor
    \/ AddHistory
    \/ Echo
    \/ ReplayInterrupt

Spec == Init /\ [][Next]_vars

----------------------------------------------------------------------------
(* Reading the log *)

RECURSIVE ArgsOf(_, _, _)
\* the arguments of the events op of lg, in order (typedOnly: of those that
\* no forward request carries)
ArgsOf(lg, op, typedOnly) ==
    IF lg = <<>> THEN <<>>
    ELSE (IF lg[1].op = op /\ (typedOnly => lg[1].req = 0)
          THEN <<lg[1].arg>> ELSE <<>>)
         \o ArgsOf(Tail(lg), op, typedOnly)

\* the lines read for the logical command of the log
ReadLines == ArgsOf(log, "read", FALSE)
\* the commands self.__executor.run was called with on behalf of typed lines
TypedRuns == ArgsOf(log, "run", TRUE)
\* the console is inside a dispatch
Dispatching == pc \in {"run", "history", "echo"}
\* the typed command is about to be passed to the executor
AboutToRun == pc = "run" /\ stack = <<>>

----------------------------------------------------------------------------
(* Claims *)

\* C1: a line that does not end in the continuation marker and is read
\* while the console is Idle is passed to the console's executor exactly
\* once, as the whole command, and no other line is read before that: from
\* the read on, the only step possible is the call of the executor with
\* that line, and from that call on the log holds exactly one call on
\* behalf of typed input, with exactly that line.
C1_SingleLineDispatchedOnce ==
    (idleStart /\ ReadLines # <<>> /\ ~EndsWith(ReadLines[1], Marker)) =>
        /\ Len(ReadLines) = 1
        /\ IF AboutToRun
           THEN TypedRuns = <<>> /\ line = ReadLines[1]
           ELSE TypedRuns = <<ReadLines[1]>> /\ log[3].op = "run"

\* C1 witness: the line a\ (a backslash without the space before it) was
\* read in Idle state, dispatched as it is, and the console is back at the
\* prompt
C1_Witness ==
    /\ idleStart /\ pc = "read"
    /\ ReadLines = <<LineBackslash>>
    /\ TypedRuns = <<LineBackslash>>

RECURSIVE JoinedStripped(_)
\* the lines ls joined by newline, the last two characters of every line
\* but the last removed
JoinedStripped(ls) ==
    IF Len(ls) = 1 THEN ls[1]
    ELSE SubSeq(ls[1], 1, Len(ls[1]) - 2) \o <<"\n">> \o JoinedStripped(Tail(ls))

AllMarked(ls) == \A i \in 1..Len(ls) : EndsWith(ls[i], Marker)
NoRunYet == \A k \in 1..Len(log) : log[k].op # "run"
\* the lines of the log are N >= 1 lines that end in the marker and one
\* that does not, read from Idle
MultiLineCommand ==
    /\ idleStart
    /\ Len(ReadLines) >= 2
    /\ ~EndsWith(ReadLines[Len(ReadLines)], Marker)
\* while only marked lines have been read from Idle, nothing is dispatched;
\* the unmarked line that follows is dispatched once, joined with them
CollectThenDispatchOnce ==
    /\ (idleStart /\ ReadLines # <<>> /\ AllMarked(ReadLines)) =>
          /\ NoRunYet
          /\ ~Dispatching
    /\ MultiLineCommand =>
          /\ AllMarked(SubSeq(ReadLines, 1, Len(ReadLines) - 1))
          /\ IF AboutToRun
             THEN TypedRuns = <<>> /\ line = JoinedStripped(ReadLines)
             ELSE TypedRuns = <<JoinedStripped(ReadLines)>>

RunEvents == {k \in 1..Len(log) : log[k].op = "run"}
Max(S) == CHOOSE x \in S : \A y \in S : y <= x
Min(S) == CHOOSE x \in S : \A y \in S : x <= y
\* the command of the last call of self.__executor.run
LastRun == log[Max(RunEvents)].arg
\* the members of the console's chain that claim command
Claimants(command) ==
    {i \in 1..Len(executor.members) : CanRunCmd(executor.members[i], command)}
UpTo(n) == [i \in 1..n |-> i]

\* C3: a run of the console's chain asks its members in configured order
\* up to the first that claims the command, runs that one and no other,
\* and neither asks nor runs a member after it, however the call ends
\* (return, forward request, interrupt or failure); when no member claims
\* the command every member was asked and none run.
C3_FirstMatchWins ==
    (executor.kind = "chain" /\ RunEvents # {}) =>
        IF Claimants(LastRun) = {}
        THEN ran = <<>> /\ asked = UpTo(Len(executor.members))
        ELSE ran = <<Min(Claimants(LastRun))>>
             /\ asked = UpTo(Min(Claimants(LastRun)))

\* C3 witness: in the chain builtin, user 1, python, shell the command a,
\* which user 1 and the shell executor both claim, was given to user 1 after
\* the built-in executor declined it, and the run failed
C3_Witness ==
    /\ executor = ChainCommandExecutor(TRUE, <<UserExecutor(1)>>)
    /\ pc = "crashed"
    /\ LastRun = LineA
    /\ asked = <<1, 2>>
    /\ ran = <<2>>
    /\ Claimants(LineA) = {2, 4}

\* the call of run at position k of the log ended in CommandNotFoundException
NotFoundAt(k) == k < Len(log) /\ log[k + 1].at = 231
\* the last thing the console did was to report a CommandNotFoundException
JustNotFound == log # <<>> /\ log[Len(log)].at = 231

\* C4: the console's chain raises CommandNotFoundException exactly for the
\* commands (typed or forwarded) that none of its members claims, and the
\* exception carries that command line; when it reaches the loop, the error
\* is written to the error stream, the buffer is empty, the loop goes on in
\* Idle state with the primary prompt, and the line read next starts a
\* command of its own: the buffer then holds nothing but that line.
C4_NotFoundRecovers ==
    /\ [](\A k \in RunEvents :
            /\ executor.kind = "chain" =>
                  (NotFoundAt(k) <=> Claimants(log[k].arg) = {})
            /\ NotFoundAt(k) =>
                  /\ log[k + 1].op = "stderr"
                  /\ log[k + 1].arg = log[k].arg
                  /\ k + 1 = Len(log))
    /\ [](JustNotFound =>
            /\ pc = "read"
            /\ buffer = <<>>
            /\ ~continue_input
            /\ stack = <<>>
            /\ Prompt = PromptNew)
    /\ [][(JustNotFound /\ pc' # "returned") =>
            /\ log'[1] = Ev("prompt", PromptNew, <<>>, 221, 0, 0)
            /\ log'[2].op = "read"
            /\ Len(log') = 2
            /\ idleStart'
            /\ buffer' = <<IF EndsWith(log'[2].arg, Marker)
                           THEN SubSeq(log'[2].arg, 1, Len(log'[2].arg) - 2)
                           ELSE log'[2].arg>>]_vars

\* C4 witness: in a chain of user executor 1 alone, the two-line command
\* made of ##python and a\ was claimed by no member and was reported, and
\* the buffer is empty
C4_Witness ==
    /\ executor = ChainCommandExecutor(FALSE, <<UserExecutor(1)>>)
    /\ JustNotFound
    /\ ReadLines = <<LinePyMore, LineBackslash>>
    /\ log[Len(log)].arg = SubSeq(PyPrefix, 1, 8) \o <<"\n">> \o LineBackslash
    /\ buffer = <<>>

\* the positions of the forward requests in the log
Forwards == {r \in 1..Len(log) : log[r].op = "forward"}
\* the position of the history event of command i of request r (0: none)
HistoryAt(r, i) ==
    LET S == {k \in 1..Len(log) :
                log[k].op = "history" /\ log[k].req = r /\ log[k].pos = i}
    IN  IF S = {} THEN 0 ELSE Min(S)
\* how many commands of request r have been added to history
Replayed(r) ==
    Cardinality({k \in 1..Len(log) : log[k].op = "history" /\ log[k].req = r})

RECURSIVE OwnerPos(_, _)
\* the position in request r of the command whose processing event k
\* belongs to (0: none): k is the history entry, echo or run of that
\* command, or belongs to a request that this command's run, or a command
\* forwarded by it, raised
OwnerPos(k, r) ==
    IF log[k].req = 0 THEN 0
    ELSE IF log[k].req = r THEN log[k].pos
    ELSE OwnerPos(log[k].req, r)

\* event k belongs to the processing of command i of request r
Within(k, r, i) == OwnerPos(k, r) = i

\* what has been replayed of request r is its first commands, in order,
\* each added to history, then echoed with the primary prompt, then passed
\* to self.__executor.run, and everything a command's run leads to (the
\* events that follow the request and belong to that command) comes before
\* the next command of the request
ReplayInOrder(r) ==
    LET cs == log[r].cmds
        m == Replayed(r)
    IN  /\ m <= Len(cs)
        /\ \A i \in 1..m :
             LET h == HistoryAt(r, i)
                 nxt == IF i < m THEN HistoryAt(r, i + 1) ELSE Len(log) + 1
             IN  /\ h > r
                 /\ log[h] = Ev("history", cs[i], <<>>, 196, r, i)
                 /\ h + 1 <= Len(log) =>
                      \/ log[h + 1] = Ev("stdout", PromptNew \o cs[i], <<>>, 197, r, i)
                      \/ log[h + 1].op = "signal"
                 /\ h + 2 <= Len(log) =>
                      \/ log[h + 2] = Ev("run", cs[i], <<>>, 193, r, i)
                      \/ log[h + 1].op = "signal"
                      \/ log[h + 2].op = "signal"
                 /\ \A k \in (r + 1)..Len(log) :
                      IF Within(k, r, i) THEN k >= h /\ k < nxt
                      ELSE i < m => (k < h \/ k >= nxt)

\* every command of request r has been added to history, echoed and run
ReplayedAll(r) ==
    /\ Replayed(r) = Len(log[r].cmds)
    /\ \A i \in 1..Len(log[r].cmds) :
          \E k \in 1..Len(log) : log[k] = Ev("run", log[r].cmds[i], <<>>, 193, r, i)

\* the replay of request r has been left and the console went on: with the
\* next command of an enclosing request, or with the next prompt
WentOnAfter(r) ==
    \/ pc = "read" /\ ~JustNotFound
    \/ \E k \in (r + 1)..Len(log) :
          /\ log[k].op = "history"
          /\ log[r].req # 0
          /\ ~Within(k, log[r].req, log[r].pos)

NoSignal == \A k \in 1..Len(log) : log[k].op # "signal"

\* C5 as stated, for the sessions in which no interrupt signal arrives and
\* no executor fails: once the logical command is over, every command of
\* every forward request raised in it has been added to history, echoed
\* with the primary prompt and dispatched, in the order of the request,
\* each command in full before the next.
C5_Original ==
    \A r \in Forwards :
        /\ ReplayInOrder(r)
        /\ (~Dispatching /\ pc # "crashed" /\ NoSignal) => ReplayedAll(r)

\* C5 amended: the commands of a forward request are added to history,
\* echoed with the primary prompt and dispatched in order, each in full
\* before the next, up to the first one whose processing is ended by an
\* exception (KeyboardInterrupt from exit() or from a signal,
\* CommandNotFoundException, or a failure of the executor): the commands
\* after it are neither added to history nor dispatched.  Whenever the
\* console goes on after a request, every command of it was replayed.
C5_ForwardReplayedInOrder ==
    \A r \in Forwards :
        /\ ReplayInOrder(r)
        /\ WentOnAfter(r) => ReplayedAll(r)

\* C5 witness: a typed command forwarded [a \, a\], the run of the first
\* forwarded command forwarded the same two commands again, all four were
\* added to history, echoed and run, and the console is at the next prompt
C5_Witness ==
    /\ pc = "read"
    /\ ~JustNotFound
    /\ Cardinality(Forwards) = 2
    /\ \A r \in Forwards :
          /\ log[r].cmds = <<LineAMore, LineBackslash>>
          /\ ReplayedAll(r)
    /\ \E r \in Forwards : log[r].req # 0 /\ log[r].pos = 1

\* C6 as stated: an interrupt signal, whenever it arrives (while a line is
\* read or while an executor runs a typed or forwarded command), ends the
\* loop: interact has returned and nothing but the farewell message follows
\* the signal.
C6_InterruptAlwaysFatal ==
    \A k \in 1..Len(log) :
        log[k].op = "signal" =>
            /\ pc = "returned"
            /\ \A j \in (k + 1)..Len(log) : log[j].at = 233

\* C7: an interrupt signal that arrives while the console awaits a
\* continuation empties the buffer and resets the flag as interact returns;
\* a later call of interact starts Idle, and every command it dispatches is
\* made of the lines read for it alone, none of the discarded fragments.
C7_InterruptDiscardsFragments ==
    (how.by = "sigint" /\ how.cont) =>
        /\ pc = "returned" => IdleNow
        /\ pc # "returned" =>
              /\ idleStart
              /\ Len(buffer) <= Len(ReadLines)
              /\ AboutToRun => line = JoinedStripped(ReadLines)
              /\ \A k \in RunEvents :
                    log[k].req = 0 => log[k].arg = JoinedStripped(ReadLines)

\* C7 witness: the call of interact that followed an interrupt in
\* Continuing state has read the line a and is about to dispatch it
C7_Witness ==
    /\ how.by = "sigint" /\ how.cont
    /\ AboutToRun
    /\ ReadLines = <<LineA>>
    /\ line = LineA

\* C8 as stated: the buffer is non-empty only while a logical command is
\* collected (Continuing) or dispatched; it is empty whenever the console
\* waits for a line in Idle state and whenever interact has returned
\* (end-of-input, interrupt, exit()).
C8_BufferOnlyWhileCollecting ==
    /\ (buffer # <<>> /\ pc # "crashed") =>
          \/ pc = "read" /\ continue_input
          \/ Dispatching
    /\ (pc = "read" /\ ~continue_input) => buffer = <<>>
    /\ pc = "returned" => buffer = <<>>

\* C9: when input() signals end-of-input, in Idle or in Continuing state,
\* a newline is written to the error stream and interact returns: nothing
\* follows the newline but the farewell message, nothing was dispatched
\* for the fragments read so far, and the console makes no step until
\* interact is called again.
C9_EndOfInputTerminates ==
    /\ [](\A k \in 1..Len(log) :
            log[k].at = 223 =>
                /\ pc = "returned"
                /\ how.by = "eof"
                /\ k >= 2
                /\ log[k - 1] = Ev("prompt",
                                   IF how.cont THEN PromptContinue ELSE PromptNew,
                                   <<>>, 221, 0, 0)
                /\ log[k] = Ev("stderr", <<"\n">>, <<>>, 223, 0, 0)
                /\ \A j \in (k + 1)..Len(log) : log[j].at = 233
                /\ NoRunYet
                /\ AllMarked(ReadLines))
    /\ [][(pc = "returned" /\ how.by = "eof") =>
             \/ pc' = "returned" /\ log' = log
             \/ pc' = "read" /\ log' = <<>>]_vars

\* C9 witness: end-of-input arrived at the continuation prompt after the
\* line ##python \ was read: interact has returned and the fragment was
\* not dispatched
C9_Witness ==
    /\ pc = "returned"
    /\ how = How("eof", TRUE)
    /\ ReadLines = <<LinePyMore>>
    /\ NoRunYet
    /\ \E k \in 1..Len(log) : log[k].at = 223

\* the positions of the farewell message in the log
FarewellEvents == {k \in 1..Len(log) : log[k].at = 233}

\* C10: interact returns by end-of-input, by an interrupt or by exit();
\* when it has returned, a non-empty exitmsg has been written to the error
\* stream exactly once, as the last thing of the session, and nothing was
\* written for an exitmsg that is None or empty; nothing is written for it
\* while the loop runs.
C10_FarewellOnce ==
    /\ pc = "returned" =>
          /\ how.by \in {"eof", "sigint", "exit"}
          /\ IF exitmsg.isNone \/ Len(exitmsg.text) = 0
             THEN FarewellEvents = {}
             ELSE /\ FarewellEvents = {Len(log)}
                  /\ log[Len(log)] =
                        Ev("stderr", exitmsg.text \o <<"\n">>, <<>>, 233, 0, 0)
    /\ pc # "returned" => FarewellEvents = {}

\* C10 witness: the loop was left by exit() with the farewell message bye,
\* which is the last thing written
C10_Witness ==
    /\ pc = "returned"
    /\ how.by = "exit"
    /\ exitmsg = Some(<<"b", "y", "e">>)
    /\ LastRun = ExitCmd
    /\ FarewellEvents = {Len(log)}

----------------------------------------------------------------------------
(* Claims about the passthrough executor *)

\* a call of run that has neither returned nor a step left to take
Stuck == shell_pc \notin {"none", "finished"} /\ ~ENABLED ShellNext

\* C11 as stated: whatever the child writes, run terminates: no state is
\* reached in which the child is blocked on a full pipe whose drain task
\* has ended (no drainer reads the pipe any more), and none in which run
\* has not returned and nothing can move.
C11_ShellNeverBlocks ==
    /\ \A fd \in Streams : BlockedOn(fd) => ~Ended(fd)
    /\ ~Stuck

RECURSIVE DecodeAll(_)
\* the text of a sequence of lines that can all be decoded
DecodeAll(ls) == IF ls = <<>> THEN <<>> ELSE Decode(Head(ls)) \o DecodeAll(Tail(ls))

\* C12 as stated: when run has returned both drain tasks have completed at
\* the end of their streams, and every line the child wrote was printed,
\* the stdout lines to sys.stdout and the stderr lines to sys.stderr, in
\* the order written.
C12_ShellRelaysAll ==
    shell_pc = "finished" =>
        \A fd \in Streams :
            /\ task[fd] = "done"
            /\ \A i \in 1..Len(written[fd]) : Decodable(written[fd][i])
            /\ relayed[fd] = DecodeAll(written[fd])

----------------------------------------------------------------------------
(* Claims about the loop as a whole *)

\* a step in which interact calls input()
InputStep == (\E l \in Lines : InputLine(l)) \/ InputEOF \/ InputInterrupt

\* C13: one logical command at a time.  While a dispatch is in progress
\* (from the call of the executor with the typed command to the end of the
\* replay of everything it forwarded, at any depth) input() is not called;
\* the log of a logical command holds at most one call of the executor on
\* behalf of typed input, after every line read for it, and everything
\* after that call belongs to the forward tree of that command; the
\* console is at input() again only with no for loop of __run_executor
\* open, every request of the tree replayed in full or the dispatch ended
\* by CommandNotFoundException.
C13_OneCommandAtATime ==
    /\ Dispatching => ~ENABLED InputStep
    /\ Len(TypedRuns) <= 1
    /\ \A k \in RunEvents :
          /\ \A j \in 1..Len(log) : log[j].op \in {"prompt", "read"} => j < k
          /\ log[k].req = 0 =>
                \A j \in (k + 1)..Len(log) :
                    \/ log[j].req # 0
                    \/ log[j].at \in {193, 102, 194, 231, 233}
    /\ pc = "read" =>
          /\ stack = <<>>
          /\ JustNotFound \/ \A r \in Forwards : ReplayedAll(r)

\* C13 witness: the replay is two requests deep (a forwarded command has
\* forwarded in its turn), and the only line read so far is the typed one
C13_Witness ==
    /\ pc = "echo"
    /\ Len(stack) = 2
    /\ Len(ReadLines) = 1
    /\ TypedRuns = <<LineA>>

\* the last thing written is the error report of PythonCommandExecutor
JustReported == log # <<>> /\ log[Len(log)].at = 102

\* C14 as stated: a failure inside an executor that runs a command it
\* claimed never leaves the loop: no exception other than the ones interact
\* handles comes out of the run of a member the chain chose, and after the
\* report of a failure the console is at input() again, Idle, the buffer
\* empty.
C14_ExecutorFailureContained ==
    /\ pc = "crashed" => ran = <<>>
    /\ JustReported => pc = "read" /\ IdleNow /\ ENABLED InputStep

\* the console's executor is a chain built with the default executors
WithDefaults ==
    /\ executor.kind = "chain"
    /\ \E i \in 1..Len(executor.members) : executor.members[i].kind = "shell"

\* C15: in a chain built with the default executors, whatever executors
\* the caller supplied, clear() and exit() are run by the built-in executor
\* and no other member is even asked; for any other command the built-in
\* executor is asked first, and when the Python or the passthrough executor
\* runs it every executor of the caller was asked before and declined.
C15_BuiltInFirstUserBeforeDefaults ==
    (WithDefaults /\ RunEvents # {}) =>
        LET members == executor.members
        IN  IF LastRun \in {ClearCmd, ExitCmd}
            THEN /\ asked = <<1>>
                 /\ ran = <<1>>
                 /\ members[1].kind = "builtin"
            ELSE /\ asked[1] = 1
                 /\ members[1].kind = "builtin"
                 /\ \A k \in 1..Len(ran) :
                       members[ran[k]].kind \in {"python", "shell"} =>
                          \A i \in 1..Len(members) :
                             members[i].kind \in {"user", "chain"} =>
                                /\ i < ran[k]
                                /\ \E j \in 1..Len(asked) : asked[j] = i
                                /\ ~CanRunCmd(members[i], LastRun)

\* C15 witness: in the chain built with the defaults and a user executor
\* that claims every command, clear() was typed and the built-in executor
\* ran it
C15_Witness ==
    /\ executor = ChainCommandExecutor(TRUE, <<UserExecutor(3)>>)
    /\ pc = "read"
    /\ TypedRuns = <<ClearCmd>>
    /\ ran = <<1>>
    /\ CanRunCmd(UserExecutor(3), ClearCmd)

\* the last call of self.__executor.run was given to the built-in executor
BuiltInRanLast ==
    /\ RunEvents # {}
    /\ \/ executor.kind = "builtin"
       \/ /\ executor.kind = "chain"
          /\ ran # <<>>
          /\ executor.members[ran[1]].kind = "builtin"

\* C16: when the command the built-in executor is run with is exactly
\* exit() (typed, or forwarded at any depth), interact returns: the buffer
\* is empty and the flag reset, nothing follows the call but the farewell
\* message, input() is not called again, and the commands that follow
\* exit() in its forward request, and in the requests around it, are
\* neither added to history nor dispatched.
C16_ExitTerminates ==
    (BuiltInRanLast /\ LastRun = ExitCmd) =>
        LET k == Max(RunEvents)
        IN  /\ pc = "returned"
            /\ how.by = "exit"
            /\ buffer = <<>> /\ ~continue_input
            /\ stack = <<>>
            /\ ~ENABLED InputStep
            /\ \A j \in (k + 1)..Len(log) : log[j].at = 233
            /\ \A r \in Forwards :
                  OwnerPos(k, r) # 0 =>
                     /\ Replayed(r) = OwnerPos(k, r)
                     /\ \A j \in 1..Len(log) :
                           log[j].req = r => log[j].pos <= OwnerPos(k, r)

\* C16 witness: a forward request [exit(), a] was replayed in a chain with
\* the default executors; exit() ended the loop and a was never added to
\* history
C16_Witness ==
    /\ pc = "returned"
    /\ BuiltInRanLast
    /\ LastRun = ExitCmd
    /\ \E r \in Forwards :
          /\ log[r].cmds = <<ExitCmd, LineA>>
          /\ log[Max(RunEvents)].req = r
          /\ Replayed(r) = 1

\* C17 as stated: the built-in executor, run with an input that is not
\* one of its literal commands, answers that it does not handle it (the
\* loop reports the command as not found) instead of failing: the console
\* whose executor is the built-in executor alone is at input() again, Idle,
\* after an unknown line.
C17_BuiltInNotHandled ==
    (executor.kind = "builtin" /\ RunEvents # {} /\ LastRun \notin BuiltInCmd) =>
        /\ pc = "read"
        /\ JustNotFound
        /\ IdleNow

\* the commands the chains of the model are asked about
Commands == Lines \cup {LineAMore, PyPrefix \o LineA}

\* can_run_cmd of an executor that is not a chain, read off its class
LeafClaims(e, c) ==
    CASE e.kind = "builtin" -> c \in {ClearCmd, ExitCmd}
      [] e.kind = "python" -> StartsWith(c, PyPrefix)
      [] e.kind = "shell" -> TRUE
      [] OTHER -> UserCanRunCmd(e.id, c)

\* some member of the chain e, whose members are not chains, claims c
SomeLeafClaims(e, c) == \E j \in 1..Len(e.members) : LeafClaims(e.members[j], c)

\* C18: a chain's can_run_cmd is true exactly when some member's is, for
\* the console's chain and for the chains nested in it; and when the
\* console's chain gives a command to a nested chain, some member of the
\* nested chain claims it and the run does not end in
\* CommandNotFoundException.
C18_ChainClaimsIffMember ==
    executor.kind = "chain" =>
        LET members == executor.members
        IN  /\ \A c \in Commands :
                 /\ CanRunCmd(executor, c) <=>
                       \E i \in 1..Len(members) : CanRunCmd(members[i], c)
                 /\ \A i \in 1..Len(members) :
                       members[i].kind = "chain" =>
                          (CanRunCmd(members[i], c) <=> SomeLeafClaims(members[i], c))
            /\ (RunEvents # {} /\ ran # <<>> /\ members[ran[1]].kind = "chain") =>
                  /\ SomeLeafClaims(members[ran[1]], LastRun)
                  /\ ~NotFoundAt(Max(RunEvents))

\* C18 witness: the chain that holds a nested chain was given clear(),
\* which user executor 2 of the nested chain claims; the nested chain ran
\* it and the console is at the next prompt
C18_Witness ==
    /\ executor.kind = "chain"
    /\ pc = "read"
    /\ TypedRuns = <<ClearCmd>>
    /\ ran = <<1>>
    /\ executor.members[1] = ChainCommandExecutor(FALSE, <<UserExecutor(2)>>)
    /\ ~JustNotFound

RECURSIVE Tagged(_, _)
\* the events op of lg, in order, each as <<argument, request, position>>
Tagged(lg, op) ==
    IF lg = <<>> THEN <<>>
    ELSE (IF lg[1].op = op THEN <<<<lg[1].arg, lg[1].req, lg[1].pos>>>> ELSE <<>>)
         \o Tagged(Tail(lg), op)

\* the forward request that the run of command i of request r raised
\* (of the typed command: r = 0, i = 0), as a set: empty when it raised none
RaisedBy(r, i) == {q \in Forwards : log[q].req = r /\ log[q].pos = i}

RECURSIVE PreOrder(_, _)
\* the commands of request r from position i on that the replay has
\* reached, depth first: each command, then what its own run forwarded,
\* then the command after it
PreOrder(r, i) ==
    IF i > Replayed(r) THEN <<>>
    ELSE <<<<log[r].cmds[i], r, i>>>>
         \o (IF RaisedBy(r, i) = {} THEN <<>> ELSE PreOrder(Min(RaisedBy(r, i)), 1))
         \o PreOrder(r, i + 1)

\* the forward tree of the typed command, depth first
ForwardTree == IF RaisedBy(0, 0) = {} THEN <<>> ELSE PreOrder(Min(RaisedBy(0, 0)), 1)

\* s with its arguments prefixed by the primary prompt
Echoed(s) == [k \in 1..Len(s) |-> <<PromptNew \o s[k][1], s[k][2], s[k][3]>>]

\* s is t or t without its last element
IsPrefixShortBy(s, t, n) == Len(t) - Len(s) \in 0..n /\ s = SubSeq(t, 1, Len(s))

\* C19: nested forwarding is replayed depth first.  The commands added to
\* history are, in order, the forward tree of the typed command in
\* pre-order (a command, then the commands its own run forwarded, then the
\* next command of its request), the echoes and the calls of the executor
\* follow the same order, each command is run once (the command that
\* raised a request is not run again), and while the tree is replayed the
\* buffer keeps the fragments of the typed command: it is emptied only when
\* the replay is over.
C19_NestedForwardPreOrder ==
    /\ Tagged(log, "history") = ForwardTree
    /\ IsPrefixShortBy(Tagged(SelectSeq(log, LAMBDA e : e.at = 197), "stdout"),
                       Echoed(ForwardTree), 1)
    /\ IsPrefixShortBy(Tagged(SelectSeq(log, LAMBDA e : e.req # 0), "run"),
                       ForwardTree, 1)
    /\ Len(TypedRuns) <= 1
    /\ \A r \in Forwards : Cardinality(RaisedBy(log[r].req, log[r].pos)) = 1
    /\ (Dispatching /\ stack # <<>>) => buffer # <<>> /\ Source(buffer) = TypedRuns[1]

\* C19 witness: the typed command a forwarded [a \, a\], the run of a \
\* forwarded [a \, a\] again, and the replay is over: history holds the
\* first a \, then the two commands it forwarded, then a\
C19_Witness ==
    /\ pc = "read"
    /\ ~JustNotFound
    /\ buffer = <<>>
    /\ \E r1, r2 \in Forwards :
          /\ log[r1].req = 0
          /\ log[r2].req = r1 /\ log[r2].pos = 1
          /\ Tagged(log, "history") =
                << <<LineAMore, r1, 1>>, <<LineAMore, r2, 1>>,
                   <<LineBackslash, r2, 2>>, <<LineBackslash, r1, 2>> >>

\* the console is replaying forwarded commands
Replaying == pc \in {"history", "echo"} \/ (pc = "run" /\ stack # <<>>)

\* C20: forwarded commands bypass the continuation handling.  A forwarded
\* command is passed to the executor as the request carries it, marker
\* included; a step of the replay leaves the buffer and the
\* awaiting-continuation flag as they are, unless it ends the dispatch (the
\* replay is over, or an exception ends it), which empties the buffer and
\* resets the flag: nothing is ever appended to the buffer.
C20_ForwardBypassesContinuation ==
    /\ [](\A k \in RunEvents :
            log[k].req # 0 => log[k].arg = log[log[k].req].cmds[log[k].pos])
    /\ []((pc = "run" /\ stack # <<>>) => line = Command)
    /\ [][Replaying =>
            \/ buffer' = buffer /\ continue_input' = continue_input
            \/ /\ pc' \in {"read", "returned"}
               /\ buffer' = <<>>
               /\ continue_input' = FALSE]_vars

\* C20 witness: the forwarded command a \ (it ends in the marker) has been
\* run as it is, the replay goes on, and the buffer holds the typed
\* command alone
C20_Witness ==
    /\ pc = "history"
    /\ buffer = <<LineA>>
    /\ ~continue_input
    /\ \E k \in RunEvents :
          /\ log[k].req # 0
          /\ log[k].arg = LineAMore
          /\ More(log[k].arg)

====
